---- MODULE Spec2Model ----
(***************************************************************************)
(* Model of the seu-news-bot synchronisation engine: the periodic driver   *)
(* (NewsPlugin.scheduled_check), the forced resync command                 *)
(* (NewsPlugin.news_update), the sync pass (NewsPlugin.check_updates) and  *)
(* the sqlite store (NewsDB).  Both coroutines run on one asyncio event    *)
(* loop, so a step of the model is the code between two awaits.            *)
(***************************************************************************)
EXTENDS Integers, Sequences, FiniteSets, TLC

(***************************************************************************)
(* Bounds of the model.                                                    *)
(***************************************************************************)
MaxEnv == 3          \* entries published and requests failed
MaxPasses == 2       \* passes started by the periodic driver
PageSize == 2        \* entries an upstream site lists per page
ConcEnv == 1         \* entries edited, when a /news update runs as well
ConcPasses == 1      \* MaxPasses, when a /news update runs as well
MaxManual == 1       \* "/news update" commands
OddEnv == 2          \* MaxEnv, when the sites also serve malformed pages
OddPasses == 1       \* MaxPasses, when the sites also serve malformed pages
FairEnv == 2         \* requests failed and malformed pages, with fair scheduling
FairPasses == 1      \* MaxPasses, with fair scheduling
DbEnv == 2           \* storage outages and entries published, with outages
DbPasses == 2        \* MaxPasses, with storage outages
MaxRows == 6         \* rows of a store that /news queries
MaxQPage == 2        \* page numbers asked of /news
MaxListed == 3       \* entries of a listing that a fetcher reads
RegEnv == 4          \* subscription commands and restarts
MaxUrlPage == 3      \* page numbers that get_page_url is called with
NotifyEnv == 2       \* subscription commands while the driver runs
NotifyPasses == 2    \* MaxPasses, with subscribers
MaxSends == 3        \* send_message calls of one loop over the subscribers
SeedEnv == 3         \* MaxEnv, over a store of an earlier run
SeedPasses == 1      \* MaxPasses, over a store of an earlier run
RetryEnv == 4        \* MaxEnv, for the passes after a failed page request
RetryPasses == 2     \* MaxPasses, for the passes after a failed page request
DupEnv == 1          \* MaxEnv, for subscribers of consecutive passes
DupPasses == 2       \* MaxPasses, for subscribers of consecutive passes

(***************************************************************************)
(* Program constants.                                                      *)
(***************************************************************************)
\* GROUPS, cut down to two sources and three channels; the order of the
\* sources and of the categories of a source is the iteration order.
GROUPS ==
    << [source |-> "jwc", categories |-> <<"zxdt", "jwxx">>],
       [source |-> "sfl", categories |-> <<"xygg">>] >>

\* The (source, cat_name) pairs in the order the two nested for loops of
\* check_updates visit them, with key = f"{source}:{cat_name}".
Channels ==
    << [source |-> "jwc", cat |-> "zxdt", key |-> "jwc:zxdt"],
       [source |-> "jwc", cat |-> "jwxx", key |-> "jwc:jwxx"],
       [source |-> "sfl", cat |-> "xygg", key |-> "sfl:xygg"] >>

NCh == Len(Channels)
ChIdx == 1..NCh

\* The channels on which the sites publish new entries in this model.
Publishing == {2}

\* The sentinel the list-style decoder stores when an entry has no date
\* element (the four-character CJK literal of main.py line 214).
UNKNOWN_DATE == "date-unknown"

\* Python's None, as returned by get_latest_date and held by latest_dt.
None == "None"
NoDt == 0

\* int(text) raised ValueError.
NoInt == 0 - 1

(***************************************************************************)
(* Date strings.                                                           *)
(***************************************************************************)
\* The date strings the upstream pages carry in this model: a date, a date
\* followed by a time of day, an empty date cell, and the sentinel.
DateStrs == {"", "2024-01-10", "2024-01-10 08:30", "2024-01-12", UNKNOWN_DATE}

\* Order of the strings under sqlite's BINARY collation (bytewise): a
\* prefix sorts first and the digits sort below the UTF-8 bytes of the
\* sentinel.
SortRank(s) ==
    CASE s = "" -> 0
      [] s = "2024-01-10" -> 1
      [] s = "2024-01-10 08:30" -> 2
      [] s = "2024-01-12" -> 3
      [] s = UNKNOWN_DATE -> 9

\* datetime.strptime(s[:10], "%Y-%m-%d"): the date as yyyymmdd, or NoDt
\* when strptime raises.
Strptime(s) ==
    CASE s = "2024-01-10" -> 20240110
      [] s = "2024-01-10 08:30" -> 20240110
      [] s = "2024-01-12" -> 20240112
      [] OTHER -> NoDt

(***************************************************************************)
(* NewsDB: the table news, one row per INSERT, in rowid order.  created_at *)
(* is written and never read; it is left out.                              *)
(***************************************************************************)
Row(record, record_key) ==
    [key |-> record_key, source |-> record.source, channel |-> record.channel,
     title |-> record.title, url |-> record.url, pub_date |-> record.pub_date]

HasUrl(db, url) == \E i \in 1..Len(db) : db[i].url = url

\* InsertOne without the PRIMARY KEY: every INSERT adds a row.
InsertNoCheck(db, record, record_key) == Append(db, Row(record, record_key))

\* InsertOne as INSERT OR REPLACE: a stored url takes the new content.
InsertOrReplace(db, record, record_key) ==
    IF HasUrl(db, record.url)
    THEN [i \in 1..Len(db) |-> IF db[i].url = record.url
                               THEN Row(record, record_key) ELSE db[i]]
    ELSE Append(db, Row(record, record_key))

\* One cursor.execute of insert_news: url is the PRIMARY KEY, so the INSERT
\* of a stored url raises sqlite3.IntegrityError and the record is skipped.
InsertOne(db, record, record_key) ==
    IF HasUrl(db, record.url) THEN db ELSE Append(db, Row(record, record_key))

\* NewsDB.insert_news(news_list, key): the records in list order.
RECURSIVE insert_news(_, _, _)
insert_news(db, news_list, key) ==
    IF news_list = << >> THEN db
    ELSE insert_news(InsertOne(db, Head(news_list), key), Tail(news_list), key)

\* NewsDB.get_latest_date(key): SELECT pub_date ... WHERE key = ? ORDER BY
\* pub_date DESC LIMIT 1; pub_date is TEXT, so the order is the string order.
get_latest_date(db, key) ==
    LET ds == {db[i].pub_date : i \in {j \in 1..Len(db) : db[j].key = key}}
    IN  IF ds = {} THEN None
        ELSE CHOOSE d \in ds : \A e \in ds : SortRank(e) <= SortRank(d)

Min(a, b) == IF a <= b THEN a ELSE b

\* Python truthiness of an optional string argument.
Truthy(x) == x # None /\ x # ""

\* The WHERE clause of get_news (lines 87-103) for the arguments source,
\* start_date and end_date; channel and keyword are None in this model.
\* pub_date is TEXT: >= and <= compare strings.
Matches(row, source, start_date, end_date) ==
    /\ Truthy(source) => row.source = source
    /\ Truthy(start_date) => SortRank(row.pub_date) >= SortRank(start_date)
    /\ Truthy(end_date) => SortRank(row.pub_date) <= SortRank(end_date)

\* ORDER BY pub_date DESC (line 104): whether row i comes before row j.
\* SQL leaves the order of rows with equal pub_date open; tie_asc says
\* whether sqlite returns them by ascending or by descending rowid.
ComesBefore(db, i, j, tie_asc) ==
    \/ SortRank(db[i].pub_date) > SortRank(db[j].pub_date)
    \/ /\ SortRank(db[i].pub_date) = SortRank(db[j].pub_date)
       /\ IF tie_asc THEN i < j ELSE i > j

\* The rows the SELECT of get_news yields before LIMIT and OFFSET, as
\* (source, channel, title, url, pub_date).
Selected(db, source, start_date, end_date, tie_asc) ==
    LET M == {i \in 1..Len(db) : Matches(db[i], source, start_date, end_date)}
        At(k) == CHOOSE i \in M :
                    Cardinality({j \in M : ComesBefore(db, j, i, tie_asc)}) = k - 1
    IN  [k \in 1..Cardinality(M) |->
            [source |-> db[At(k)].source, channel |-> db[At(k)].channel,
             title |-> db[At(k)].title, url |-> db[At(k)].url,
             pub_date |-> db[At(k)].pub_date]]

\* Offset when the pages are counted from 0.
OffsetFromZero(page, limit) == page * limit

\* Line 105: OFFSET (page - 1) * per_page.
Offset(page, limit) == (page - 1) * limit

\* NewsDB.get_news(source=, page=, per_page=limit, start_date=, end_date=).
get_news(db, source, page, limit, start_date, end_date, tie_asc) ==
    LET rows == Selected(db, source, start_date, end_date, tie_asc)
    IN  SubSeq(rows, Offset(page, limit) + 1,
               Min(Offset(page, limit) + limit, Len(rows)))

(***************************************************************************)
(* The upstream sites: feed[c] is the listing of channel c, newest entry   *)
(* first as the site orders it, cut into pages of PageSize entries.        *)
(***************************************************************************)
\* The entries the site shows on page number page of a listing.
PageOf(listing, page) ==
    SubSeq(listing, (page - 1) * PageSize + 1, Min(page * PageSize, Len(listing)))

\* The page count the site declares for a listing.
PagesShown(listing) == (Len(listing) + PageSize - 1) \div PageSize

\* The decimal text of a page number.
NumText(n) ==
    CASE n = 1 -> "1" [] n = 2 -> "2" [] n = 3 -> "3" [] n = 4 -> "4"

\* int(text.strip()) of line 176, NoInt when it raises.
IntOf(text) ==
    CASE text = "0" -> 0
      [] text = "1" -> 1
      [] text = "2" -> 2
      [] text = " 2 " -> 2
      [] text = "3" -> 3
      [] text = "4" -> 4
      [] OTHER -> NoInt

\* soup.find("span", class_="pages") on a first page: whether the element
\* is there, and the texts of its <em> elements in document order.
NoSpan == [found |-> FALSE, ems |-> << >>]

\* The indicator a site renders on the first page of a listing: the
\* current page and the page count; an empty listing has none.
PageSpan(listing) ==
    IF Len(listing) = 0 THEN NoSpan
    ELSE [found |-> TRUE, ems |-> <<"1", NumText(PagesShown(listing))>>]

\* The indicators of the first pages that are not rendered that way: no
\* indicator over a listing, no <em>, text that is no number, padded
\* text, a last marker below the first, and a count of zero.
OddSpans ==
    { NoSpan,
      [found |-> TRUE, ems |-> << >>],
      [found |-> TRUE, ems |-> <<"1", "x">>],
      [found |-> TRUE, ems |-> <<"1", " 2 ">>],
      [found |-> TRUE, ems |-> <<"2", "1">>],
      [found |-> TRUE, ems |-> <<"1", "0">>] }

\* ParseTotalPages reading the first <em> instead of the last.
ParseFirstMarker(page_span) ==
    IF ~page_span.found \/ page_span.ems = << >> THEN 1
    ELSE IF IntOf(page_span.ems[1]) = NoInt THEN 1
    ELSE IntOf(page_span.ems[1])

\* Lines 171-178: total_pages from page_span.  ems[-1] of an empty list
\* raises IndexError and int() of other text raises ValueError; both are
\* caught and leave the default 1.
ParseTotalPages(page_span) ==
    IF ~page_span.found THEN 1
    ELSE IF page_span.ems = << >> THEN 1
    ELSE IF IntOf(page_span.ems[Len(page_span.ems)]) = NoInt THEN 1
    ELSE IntOf(page_span.ems[Len(page_span.ems)])

\* total_pages as check_updates sets it from the first page of a listing.
TotalPages(listing) == ParseTotalPages(PageSpan(listing))

\* The decoder: the (source, cat_name, title, full_url, date_str) tuples of
\* the entries of one page.
Decode(c, entries) ==
    [i \in 1..Len(entries) |->
        [source |-> Channels[c].source, channel |-> Channels[c].cat,
         title |-> entries[i].title, url |-> entries[i].url,
         pub_date |-> entries[i].date]]

(***************************************************************************)
(* State.                                                                  *)
(***************************************************************************)
VARIABLES
    news,      \* NewsDB: the rows of table news
    feed,      \* the upstream listing of every channel
    run,       \* per coroutine: its position in check_updates and its locals
    started,   \* per coroutine: the passes it has started
    nPub,      \* entries published so far (the next entry's link)
    nEnv,      \* entries published or edited, requests failed, outages so far
    lim,       \* what the environment may still do in this behaviour
    ev,        \* history: the page or the failure the last step handled
    hist,      \* history: per coroutine, what disturbed its last two passes
    dbUp,      \* NewsDB: whether sqlite executes statements (FALSE: it raises)
    auto_notify_origins,  \* self.auto_notify_origins: the subscribed origins
    auto_notify_file,     \* what auto_notify.json holds
    cmds,      \* history: the last subscription command of every origin
    notify,    \* the for loop of scheduled_check over the subscribed origins
    lost       \* history: the newer entries of pages a failed request left unread

regVars == <<auto_notify_origins, auto_notify_file, cmds>>

vars == <<news, feed, run, started, nPub, nEnv, lim, ev, hist, dbUp,
          auto_notify_origins, auto_notify_file, cmds, notify, lost>>

\* "sched" is the task scheduled_check, "manual" a handler of /news update.
Procs == {"sched", "manual"}

NoEv == [kind |-> "other"]

(***************************************************************************)
(* check_updates, cut at its awaits.  run[p].trace is history: the         *)
(* watermark reads, requests and inserts of the pass in progress.          *)
(***************************************************************************)
\* dt is the watermark of a "read" and the total_pages of a "pages".
TraceEv(e, c, page, dt) == [e |-> e, ch |-> c, page |-> page, dt |-> dt]

\* return new_news_all, and the caller's code up to its next await:
\* news_update replies; scheduled_check, whose subscription registry is
\* empty here, takes the else branch of line 110 to asyncio.sleep(interval).
Return(r) == [r EXCEPT !.pc = "returned", !.ch = NCh + 1, !.latest_dt = NoDt,
                       !.total_pages = 0, !.page = 0]

\* Lines 145-158: latest_dt of channel c, read from the store db.
ReadLatestDt(r, c, db) ==
    LET latest_date == IF r.force THEN None
                       ELSE get_latest_date(db, Channels[c].key)
    IN  IF latest_date # None /\ latest_date # "" THEN Strptime(latest_date)
        ELSE NoDt

\* Line 147 when sqlite raises: get_latest_date is called outside every
\* try block of check_updates, and neither scheduled_check (line 109) nor
\* news_update (line 360) catches, so the exception ends the coroutine.
Raise(r, c) ==
    [r EXCEPT !.pc = "raised", !.ch = c, !.latest_dt = NoDt,
              !.total_pages = 0, !.page = 0,
              !.trace = Append(@, TraceEv("read_raised", c, 0, 0))]

\* The top of the body of the category loop for channel number c, up to the
\* await of the first-page request (lines 142-162); past the last channel
\* the pass returns.
EnterChannel(r, c, db) ==
    IF c > NCh THEN Return(r)
    ELSE IF ~r.force /\ ~dbUp THEN Raise(r, c)
    ELSE LET dt == ReadLatestDt(r, c, db)
             t1 == IF r.force THEN r.trace
                   ELSE Append(r.trace, TraceEv("read", c, 0, dt))
         IN  [r EXCEPT !.pc = "first_get", !.ch = c, !.latest_dt = dt,
                       !.total_pages = 0, !.page = 0,
                       !.trace = Append(t1, TraceEv("get", c, 0, 0))]

\* The start of check_updates(force_update).
StartPass(force, db) ==
    EnterChannel([pc |-> "start", force |-> force, ch |-> 0, latest_dt |-> NoDt,
                  total_pages |-> 0, page |-> 0, new_news_all |-> << >>,
                  trace |-> << >>], 1, db)

\* The while test of line 181 and the request of line 185.
PageLoop(r, db) ==
    IF r.page <= r.total_pages
    THEN [r EXCEPT !.pc = "page_get",
                   !.trace = Append(@, TraceEv("get", r.ch, r.page, 0))]
    ELSE EnterChannel(r, r.ch + 1, db)

\* FirstGot with the page loop starting at page 2.
FirstGotFromTwo(r, db, page_span) ==
    PageLoop([r EXCEPT !.total_pages = ParseTotalPages(page_span),
                       !.page = 2,
                       !.trace = Append(@, TraceEv("pages", r.ch, 0,
                                                   ParseTotalPages(page_span)))],
             db)

\* Lines 170-185 once the first page is read: total_pages from its
\* indicator, page = 1 and the page loop.  The trace keeps total_pages.
FirstGot(r, db, page_span) ==
    PageLoop([r EXCEPT !.total_pages = ParseTotalPages(page_span),
                       !.page = 1,
                       !.trace = Append(@, TraceEv("pages", r.ch, 0,
                                                   ParseTotalPages(page_span)))],
             db)

\* FirstGetFailed when the failure ends the pass instead of the channel.
FirstGetAborts(r, db) ==
    Return([r EXCEPT !.trace = Append(@, TraceEv("fail", r.ch, 0, 0))])

\* Lines 163-169: the first-page request failed (status or exception):
\* continue with the next category.
FirstGetFailed(r, db) ==
    EnterChannel([r EXCEPT !.trace = Append(@, TraceEv("fail", r.ch, 0, 0))],
                 r.ch + 1, db)

\* Lines 186-192: a page request failed (status or exception): break out
\* of the page loop.
PageGetFailed(r, db) ==
    EnterChannel([r EXCEPT !.trace = Append(@, TraceEv("fail", r.ch, r.page, 0))],
                 r.ch + 1, db)

\* NoContainer as the log message of line 196 words it: the page is
\* skipped and the loop goes on.
NoContainerSkips(r, db) ==
    [r EXCEPT !.page = @ + 1, !.pc = "sleep",
              !.trace = Append(@, TraceEv("no_div", r.ch, r.page, 0))]

\* Lines 193-197: the page has no element with id container_id: break out
\* of the page loop.
NoContainer(r, db) ==
    EnterChannel([r EXCEPT !.trace = Append(@, TraceEv("no_div", r.ch, r.page, 0))],
                 r.ch + 1, db)

\* Newer as the log message of line 259 words it.
NewerOrEqual(item_dt, latest_dt) == item_dt >= latest_dt

\* Line 258.
Newer(item_dt, latest_dt) == item_dt > latest_dt

\* Kept when the filter appends every item.
KeptAll(item, latest_dt) == TRUE

\* Lines 247-262: whether the filter appends item to new_page_news.
Kept(item, latest_dt) ==
    /\ item.pub_date # UNKNOWN_DATE
    /\ Strptime(item.pub_date) # NoDt
    /\ Newer(Strptime(item.pub_date), latest_dt)

\* Lines 245-262.
FilterNew(page_news, latest_dt) ==
    SelectSeq(page_news, LAMBDA item : Kept(item, latest_dt))

\* CutoffActive without the test of latest_dt.
CutoffUnlessForced(r) == ~r.force

\* Line 244.
CutoffActive(r) == ~r.force /\ r.latest_dt # NoDt

\* CutoffDt when the watermark is read again for every page.
CutoffDtReread(r, db) == ReadLatestDt(r, r.ch, db)

\* Line 244: the date the filter of this page compares with.
CutoffDt(r, db) == r.latest_dt

\* StopAfterMixed without the test of line 274.
NeverStop(new_page_news, page_news) == FALSE

\* Line 274.
StopAfterMixed(new_page_news, page_news) == Len(new_page_news) < Len(page_news)

\* NextPage without page += 1.
NextPageSame(r) == [r EXCEPT !.pc = "sleep"]

\* Lines 284-285.
NextPage(r) == [r EXCEPT !.page = @ + 1, !.pc = "sleep"]

\* Lines 263-268 and 278-282: insert_news inside try/except Exception.
\* When sqlite raises, the handler logs and the table is as it was.
TryInsert(db, news_list, key) ==
    IF dbUp THEN insert_news(db, news_list, key) ELSE db

\* What the trace keeps of a call of insert_news.
InsertEv(r) ==
    TraceEv(IF dbUp THEN "insert" ELSE "insert_raised", r.ch, r.page, 0)

\* Lines 193-285 for a page that was fetched: the coroutine and the store
\* after the code up to the next await.
ProcessPage(r, db, page_news) ==
    LET key == Channels[r.ch].key IN
    IF page_news = << >> THEN
        [run |-> EnterChannel(r, r.ch + 1, db), db |-> db]
    ELSE IF CutoffActive(r) THEN
        LET new_page_news == FilterNew(page_news, CutoffDt(r, db))
            db2 == TryInsert(db, new_page_news, key)
            r2 == [r EXCEPT !.new_news_all = @ \o new_page_news,
                            !.trace = Append(@, InsertEv(r))]
        IN  IF new_page_news = << >> THEN
                [run |-> EnterChannel(r, r.ch + 1, db), db |-> db]
            ELSE IF StopAfterMixed(new_page_news, page_news) THEN
                [run |-> EnterChannel(r2, r.ch + 1, db2), db |-> db2]
            ELSE [run |-> NextPage(r2), db |-> db2]
    ELSE
        LET db2 == TryInsert(db, page_news, key)
            r2 == [r EXCEPT !.new_news_all = @ \o page_news,
                            !.trace = Append(@, InsertEv(r))]
        IN  [run |-> NextPage(r2), db |-> db2]

(***************************************************************************)
(* The subscription registry: the set self.auto_notify_origins and the     *)
(* file auto_notify.json.  A file is absent, holds text that json.load     *)
(* rejects ("garbage"), a JSON value that is not a list ("object"), a list *)
(* with an element that cannot be hashed ("nested"), or a list of origins. *)
(***************************************************************************)
ORIGINS == {"o1", "o2"}

\* The orders in which list(origins) and a for loop can go through a set.
Orders(S) ==
    {f \in [1..Cardinality(S) -> S] : \A i, j \in 1..Cardinality(S) : f[i] = f[j] => i = j}

Range(seq) == {seq[i] : i \in 1..Len(seq)}

NoFile == [kind |-> "absent", data |-> << >>]

FileContents ==
    {NoFile, [kind |-> "garbage", data |-> << >>], [kind |-> "object", data |-> << >>],
     [kind |-> "nested", data |-> << >>]}
    \cup {[kind |-> "list", data |-> d] : d \in UNION {[1..n -> ORIGINS] : n \in 0..2}}

\* load_auto_notify_origins when the except clause catches nothing.
LoadNoCatch(file) ==
    IF file.kind = "list" THEN [raised |-> FALSE, value |-> Range(file.data)]
    ELSE IF file.kind \in {"garbage", "nested"} THEN [raised |-> TRUE, value |-> {}]
    ELSE [raised |-> FALSE, value |-> {}]

\* load_auto_notify_origins (lines 61-71): the set of the list in the file;
\* json.load or set(data) raising is caught and logged.
load_auto_notify_origins(file) ==
    IF file.kind = "list" THEN [raised |-> FALSE, value |-> Range(file.data)]
    ELSE [raised |-> FALSE, value |-> {}]

\* save_auto_notify_origins (lines 73-77): the file after the call.  open
\* can raise and leave the file as it is; json.dump can raise after open
\* has truncated the file; both are caught and logged.
save_auto_notify_origins(file, origins) ==
    {[saved |-> TRUE, file |-> [kind |-> "list", data |-> d]] : d \in Orders(origins)}
    \cup {[saved |-> FALSE, file |-> file],
          [saved |-> FALSE, file |-> [kind |-> "garbage", data |-> << >>]]}

\* The loop of lines 115-120 is not running.
NoFanout ==
    [pc |-> "none", batch |-> << >>, size |-> 0, visited |-> {}, mutated |-> FALSE,
     subs0 |-> {}, stayed |-> {}, sends |-> << >>]

\* Lines 110-117 when check_updates has returned batch: with a batch and a
\* subscriber, the for loop makes its iterator, takes a first origin and
\* calls send_message for it; else line 122.
BeginFanout(batch, origins) ==
    IF batch # << >> /\ origins # {}
    THEN {[pc |-> "sending", batch |-> batch, size |-> Cardinality(origins),
           visited |-> {o}, mutated |-> FALSE, subs0 |-> origins,
           stayed |-> origins, sends |-> <<o>>] : o \in origins}
    ELSE {NoFanout}

\* notify after a step of check_updates that took scheduled_check from
\* r0 to r1.
FanAfter(r0, r1) ==
    IF r1.pc = "returned" /\ r0.pc # "returned"
    THEN BeginFanout(r1.new_news_all, auto_notify_origins)
    ELSE {notify}

\* The registry of a plugin without a file and without subscribers.
NoRegistry ==
    /\ auto_notify_origins = {}
    /\ auto_notify_file = NoFile
    /\ cmds = [o \in ORIGINS |-> "none"]
    /\ notify = NoFanout

(***************************************************************************)
(* The periodic driver alone.  Initial state: NewsPlugin.__init__ has      *)
(* opened an empty store and created the task scheduled_check.             *)
(***************************************************************************)
Idle == [pc |-> "idle", force |-> FALSE, ch |-> 0, latest_dt |-> NoDt,
         total_pages |-> 0, page |-> 0, new_news_all |-> << >>, trace |-> << >>]

\* The listings when the plugin starts: the channels outside Publishing
\* list one dated entry each.
InitFeed ==
    [c \in ChIdx |-> IF c \in Publishing THEN << >>
                     ELSE << [title |-> "t0", url |-> 100 + c, date |-> "2024-01-10"] >>]

Init ==
    /\ lim = [env |-> MaxEnv, passes |-> MaxPasses, manual |-> 0]
    /\ news = << >>
    /\ feed = InitFeed
    /\ run = [p \in Procs |-> Idle]
    /\ started = [p \in Procs |-> 0]
    /\ nPub = 0
    /\ nEnv = 0
    /\ ev = NoEv
    /\ hist = [p \in Procs |-> [calm |-> FALSE, since |-> FALSE, added |-> 0,
                                db0 |-> << >>]]
    /\ dbUp = TRUE
    /\ lost = {}
    /\ NoRegistry

(***************************************************************************)
(* History bookkeeping.                                                    *)
(***************************************************************************)
\* Something other than the passes of the coroutines in S themselves
\* happened to the sites or the store.
Disturb(S) ==
    [p \in Procs |-> IF p \in S THEN [hist[p] EXCEPT !.calm = FALSE, !.since = FALSE]
                     ELSE hist[p]]

\* Coroutine p starts a pass; db0 is the table as the pass finds it.
HistStart(p) ==
    [hist EXCEPT ![p] = [calm |-> hist[p].since /\ started[p] >= 1,
                         since |-> TRUE, added |-> 0, db0 |-> news]]

\* Coroutine p stored n more rows.
HistAdded(p, n) ==
    IF n = 0 THEN hist
    ELSE [q \in Procs |->
            IF q = p THEN [hist[q] EXCEPT !.added = @ + n]
            ELSE [hist[q] EXCEPT !.calm = FALSE, !.since = FALSE]]

(***************************************************************************)
(* Actions of the two coroutines.                                          *)
(***************************************************************************)
\* scheduled_check: the first pass, or the next one when
\* asyncio.sleep(interval) is over (lines 108-109, 123).
SchedStart ==
    /\ run["sched"].pc \in {"idle", "returned"}
    /\ notify.pc # "sending"
    /\ started["sched"] < lim.passes
    /\ run' = [run EXCEPT !["sched"] = StartPass(FALSE, news)]
    /\ started' = [started EXCEPT !["sched"] = @ + 1]
    /\ hist' = HistStart("sched")
    /\ ev' = NoEv
    /\ UNCHANGED <<news, feed, nPub, nEnv, lim, dbUp, regVars, notify, lost>>

\* news_update: /news update arrives (lines 354-362).
ManualStart ==
    /\ run["manual"].pc \in {"idle", "returned"}
    /\ started["manual"] < lim.manual
    /\ run' = [run EXCEPT !["manual"] = StartPass(TRUE, news)]
    /\ started' = [started EXCEPT !["manual"] = @ + 1]
    /\ hist' = HistStart("manual")
    /\ ev' = NoEv
    /\ UNCHANGED <<news, feed, nPub, nEnv, lim, dbUp, regVars, notify, lost>>

\* The first-page request answers with status 200 and the page the site
\* renders for the listing (lines 162-185).
FirstGetOk ==
    \E p \in Procs :
        /\ run[p].pc = "first_get"
        /\ run' = [run EXCEPT ![p] =
                     FirstGot(run[p], news, PageSpan(feed[run[p].ch]))]
        /\ ev' = [kind |-> "first", p |-> p, ch |-> run[p].ch,
                  page_span |-> PageSpan(feed[run[p].ch])]
        /\ UNCHANGED <<news, feed, started, nPub, nEnv, lim, hist, dbUp, regVars, lost>>
        /\ notify' \in FanAfter(run["sched"], run'["sched"])

\* The first-page request fails (lines 163-169).
FirstGetFail ==
    \E p \in Procs :
        /\ run[p].pc = "first_get"
        /\ nEnv < lim.env
        /\ run' = [run EXCEPT ![p] = FirstGetFailed(run[p], news)]
        /\ nEnv' = nEnv + 1
        /\ hist' = Disturb({p})
        /\ ev' = [kind |-> "fail", p |-> p, ch |-> run[p].ch]
        /\ UNCHANGED <<news, feed, started, nPub, lim, dbUp, regVars, lost>>
        /\ notify' \in FanAfter(run["sched"], run'["sched"])

\* A page request answers with status 200: decode, filter, insert
\* (lines 185-285).
PageGetOk ==
    \E p \in Procs :
        /\ run[p].pc = "page_get"
        /\ LET r == run[p]
               page_news == Decode(r.ch, PageOf(feed[r.ch], r.page))
               out == ProcessPage(r, news, page_news)
           IN  /\ run' = [run EXCEPT ![p] = out.run]
               /\ news' = out.db
               /\ hist' = HistAdded(p, Len(out.db) - Len(news))
               /\ ev' = [kind |-> "page", p |-> p, ch |-> r.ch, page |-> r.page,
                         force |-> r.force, read_dt |-> r.latest_dt,
                         used_dt |-> CutoffDt(r, news),
                         page_news |-> page_news,
                         reported |-> SubSeq(out.run.new_news_all,
                                             Len(r.new_news_all) + 1,
                                             Len(out.run.new_news_all)),
                         before |-> news,
                         wm_before |-> get_latest_date(news, Channels[r.ch].key)]
        /\ UNCHANGED <<feed, started, nPub, nEnv, lim, dbUp, regVars, lost>>
        /\ notify' \in FanAfter(run["sched"], run'["sched"])

\* What the break of lines 188 and 192 leaves unread in a pass r that is
\* not forced and has kept the pages before: the entries of the page that
\* failed and of the pages after it that are dated after the watermark
\* the pass read for the channel, each with that watermark.
Unread(r, listing) ==
    IF r.force \/ r.page < 2 THEN {}
    ELSE {[url |-> listing[i].url, ch |-> r.ch, wm |-> r.latest_dt] :
             i \in {j \in ((r.page - 1) * PageSize + 1)..Len(listing) :
                       /\ Strptime(listing[j].date) # NoDt
                       /\ Strptime(listing[j].date) > r.latest_dt}}

\* A page request fails (lines 186-192).
PageGetFail ==
    \E p \in Procs :
        /\ run[p].pc = "page_get"
        /\ nEnv < lim.env
        /\ run' = [run EXCEPT ![p] = PageGetFailed(run[p], news)]
        /\ nEnv' = nEnv + 1
        /\ hist' = Disturb({p})
        /\ ev' = [kind |-> "fail", p |-> p, ch |-> run[p].ch]
        /\ lost' = lost \cup Unread(run[p], feed[run[p].ch])
        /\ UNCHANGED <<news, feed, started, nPub, lim, dbUp, regVars>>
        /\ notify' \in FanAfter(run["sched"], run'["sched"])

\* asyncio.sleep(1) is over (lines 285, 181).
SleepDone ==
    \E p \in Procs :
        /\ run[p].pc = "sleep"
        /\ run' = [run EXCEPT ![p] = PageLoop(run[p], news)]
        /\ ev' = NoEv
        /\ UNCHANGED <<news, feed, started, nPub, nEnv, lim, hist, dbUp, regVars, lost>>
        /\ notify' \in FanAfter(run["sched"], run'["sched"])

(***************************************************************************)
(* Actions of the upstream sites.                                          *)
(***************************************************************************)
\* A site lists a new entry at the top of a channel.
Publish ==
    \E c \in Publishing, d \in DateStrs :
        /\ nEnv < lim.env
        /\ feed' = [feed EXCEPT ![c] =
                      << [title |-> "t0", url |-> nPub + 1, date |-> d] >> \o @]
        /\ nPub' = nPub + 1
        /\ nEnv' = nEnv + 1
        /\ hist' = Disturb(Procs)
        /\ ev' = NoEv
        /\ UNCHANGED <<news, run, started, lim, dbUp, regVars, notify, lost>>

\* A site changes the title and the date of a listed entry.
Edit ==
    \E c \in ChIdx :
        \E i \in 1..Len(feed[c]), d \in DateStrs :
            /\ nEnv < lim.env
            /\ d # feed[c][i].date
            /\ feed' = [feed EXCEPT ![c][i] = [@ EXCEPT !.title = "t1", !.date = d]]
            /\ nEnv' = nEnv + 1
            /\ hist' = Disturb(Procs)
            /\ ev' = NoEv
            /\ UNCHANGED <<news, run, started, nPub, lim, dbUp, regVars, notify, lost>>

Next ==
    \/ SchedStart
    \/ FirstGetOk
    \/ FirstGetFail
    \/ PageGetOk
    \/ PageGetFail
    \/ SleepDone
    \/ Publish

Spec == Init /\ [][Next]_vars

(***************************************************************************)
(* The periodic driver together with /news update, while the sites edit    *)
(* the entries they list.                                                  *)
(***************************************************************************)
InitConc ==
    /\ lim = [env |-> ConcEnv, passes |-> ConcPasses, manual |-> MaxManual]
    /\ news = << >>
    /\ feed = InitFeed
    /\ run = [p \in Procs |-> Idle]
    /\ started = [p \in Procs |-> 0]
    /\ nPub = 0
    /\ nEnv = 0
    /\ ev = NoEv
    /\ hist = [p \in Procs |-> [calm |-> FALSE, since |-> FALSE, added |-> 0,
                                db0 |-> << >>]]
    /\ dbUp = TRUE
    /\ lost = {}
    /\ NoRegistry

NextConc ==
    \/ SchedStart
    \/ ManualStart
    \/ FirstGetOk
    \/ PageGetOk
    \/ SleepDone
    \/ Edit

SpecConc == InitConc /\ [][NextConc]_vars

(***************************************************************************)
(* The periodic driver while the store has outages: every statement sent   *)
(* to sqlite during an outage raises.                                      *)
(***************************************************************************)
\* The store becomes unavailable.
DbDown ==
    /\ dbUp
    /\ nEnv < lim.env
    /\ dbUp' = FALSE
    /\ nEnv' = nEnv + 1
    /\ hist' = Disturb(Procs)
    /\ ev' = NoEv
    /\ UNCHANGED <<news, feed, run, started, nPub, lim, regVars, notify, lost>>

\* The store is available again.
DbBack ==
    /\ ~dbUp
    /\ dbUp' = TRUE
    /\ ev' = NoEv
    /\ UNCHANGED <<news, feed, run, started, nPub, nEnv, lim, hist, regVars, notify, lost>>

InitDb ==
    /\ lim = [env |-> DbEnv, passes |-> DbPasses, manual |-> 0]
    /\ news = << >>
    /\ feed = InitFeed
    /\ run = [p \in Procs |-> Idle]
    /\ started = [p \in Procs |-> 0]
    /\ nPub = 0
    /\ nEnv = 0
    /\ ev = NoEv
    /\ hist = [p \in Procs |-> [calm |-> FALSE, since |-> FALSE, added |-> 0,
                                db0 |-> << >>]]
    /\ dbUp = TRUE
    /\ lost = {}
    /\ NoRegistry

NextDb ==
    \/ SchedStart
    \/ FirstGetOk
    \/ PageGetOk
    \/ SleepDone
    \/ Publish
    \/ DbDown
    \/ DbBack

SpecDb == InitDb /\ [][NextDb]_vars

(***************************************************************************)
(* The periodic driver while the sites also answer with pages that are not *)
(* the pages of a listing.                                                 *)
(***************************************************************************)
\* The first-page request answers with status 200 and a page whose
\* pagination indicator is missing or malformed (lines 162-185).
FirstGetOdd ==
    \E p \in Procs, page_span \in OddSpans :
        /\ run[p].pc = "first_get"
        /\ nEnv < lim.env
        /\ run' = [run EXCEPT ![p] = FirstGot(run[p], news, page_span)]
        /\ nEnv' = nEnv + 1
        /\ hist' = Disturb({p})
        /\ ev' = [kind |-> "first", p |-> p, ch |-> run[p].ch,
                  page_span |-> page_span]
        /\ UNCHANGED <<news, feed, started, nPub, lim, dbUp, regVars, lost>>
        /\ notify' \in FanAfter(run["sched"], run'["sched"])

\* A page request answers with status 200 and a page without the
\* container element (lines 185-197).
PageGetNoContainer ==
    \E p \in Procs :
        /\ run[p].pc = "page_get"
        /\ nEnv < lim.env
        /\ run' = [run EXCEPT ![p] = NoContainer(run[p], news)]
        /\ nEnv' = nEnv + 1
        /\ hist' = Disturb({p})
        /\ ev' = [kind |-> "no_div", p |-> p, ch |-> run[p].ch,
                  page |-> run[p].page, before |-> news]
        /\ UNCHANGED <<news, feed, started, nPub, lim, dbUp, regVars, lost>>
        /\ notify' \in FanAfter(run["sched"], run'["sched"])

InitOdd ==
    /\ lim = [env |-> OddEnv, passes |-> OddPasses, manual |-> 0]
    /\ news = << >>
    /\ feed = InitFeed
    /\ run = [p \in Procs |-> Idle]
    /\ started = [p \in Procs |-> 0]
    /\ nPub = 0
    /\ nEnv = 0
    /\ ev = NoEv
    /\ hist = [p \in Procs |-> [calm |-> FALSE, since |-> FALSE, added |-> 0,
                                db0 |-> << >>]]
    /\ dbUp = TRUE
    /\ lost = {}
    /\ NoRegistry

NextOdd ==
    \/ SchedStart
    \/ FirstGetOk
    \/ FirstGetOdd
    \/ FirstGetFail
    \/ PageGetOk
    \/ PageGetNoContainer
    \/ PageGetFail
    \/ SleepDone
    \/ Publish

SpecOdd == InitOdd /\ [][NextOdd]_vars

(***************************************************************************)
(* The periodic driver over listings that do not change, with failed       *)
(* requests and malformed pages, and with the scheduling of the event      *)
(* loop: a request that is awaited ends, with a response or with an        *)
(* exception (a source that does not respond ends it with the timeout      *)
(* exception of the HTTP client), and a sleep that is awaited ends.        *)
(***************************************************************************)
InitFair ==
    /\ lim = [env |-> FairEnv, passes |-> FairPasses, manual |-> 0]
    /\ news = << >>
    /\ feed = InitFeed
    /\ run = [p \in Procs |-> Idle]
    /\ started = [p \in Procs |-> 0]
    /\ nPub = 0
    /\ nEnv = 0
    /\ ev = NoEv
    /\ hist = [p \in Procs |-> [calm |-> FALSE, since |-> FALSE, added |-> 0,
                                db0 |-> << >>]]
    /\ dbUp = TRUE
    /\ lost = {}
    /\ NoRegistry

NextFair ==
    \/ SchedStart
    \/ FirstGetOk
    \/ FirstGetOdd
    \/ FirstGetFail
    \/ PageGetOk
    \/ PageGetNoContainer
    \/ PageGetFail
    \/ SleepDone

SpecFair ==
    /\ InitFair
    /\ [][NextFair]_vars
    /\ WF_vars(FirstGetOk \/ FirstGetOdd \/ FirstGetFail)
    /\ WF_vars(PageGetOk \/ PageGetNoContainer \/ PageGetFail)
    /\ WF_vars(SleepDone)

(***************************************************************************)
(* The command /news over a store: NewsPlugin.get_news (lines 292-324)     *)
(* with per_page rows a page.                                              *)
(***************************************************************************)
per_page == 5

\* The kinds of rows in the stores that are queried: dated rows of one
\* source, with and without a time of day, a row without a date, and a
\* row of another source.
QueryKinds ==
    << [source |-> "jwc", channel |-> "zxdt", pub_date |-> "2024-01-10"],
       [source |-> "jwc", channel |-> "zxdt", pub_date |-> "2024-01-10 08:30"],
       [source |-> "jwc", channel |-> "zxdt", pub_date |-> "2024-01-12"],
       [source |-> "jwc", channel |-> "zxdt", pub_date |-> UNKNOWN_DATE],
       [source |-> "sfl", channel |-> "xygg", pub_date |-> "2024-01-10"] >>

\* The row of kind k with the link url.
QueryRow(k, url) ==
    Row([source |-> QueryKinds[k].source, channel |-> QueryKinds[k].channel,
         title |-> "t0", url |-> url, pub_date |-> QueryKinds[k].pub_date],
        QueryKinds[k].source \o ":" \o QueryKinds[k].channel)

\* The store whose row number i is of kind ks[i] and has the link i.
StoreOf(ks) ==
    [i \in 1..Len(ks) |-> QueryRow(ks[i], i)]

\* Stores of up to MaxRows rows, the rows of a kind next to each other.
QueryStores ==
    {StoreOf(ks) : ks \in
        {f \in UNION {[1..n -> 1..Len(QueryKinds)] : n \in 0..MaxRows} :
            \A i \in 1..(Len(f) - 1) : f[i] <= f[i + 1]}}

\* The values of the arguments of /news.
QuerySources == {None, "jwc", "sfl"}
QueryDates == {None, "2024-01-10", "2024-01-12"}

\* The commands /news source page start_date end_date that a user sends.
NewsCommands ==
    [kind : {"news_cmd"}, source : QuerySources, page : 1..MaxQPage,
     start_date : QueryDates, end_date : QueryDates]

\* The handler of the command in ev asks the store for the page and replies
\* with its rows, or that there is no more news.
GetNews ==
    /\ ev.kind = "news_cmd"
    /\ \E tie_asc \in BOOLEAN :
        LET result == get_news(news, ev.source, ev.page, per_page,
                               ev.start_date, ev.end_date, tie_asc)
        IN  /\ ev' = [kind |-> "query", source |-> ev.source, page |-> ev.page,
                      start_date |-> ev.start_date, end_date |-> ev.end_date,
                      result |-> result,
                      reply |-> IF result = << >> THEN "no more news"
                                ELSE IF Len(result) = per_page THEN "rows, next page"
                                ELSE "rows"]
            /\ UNCHANGED <<news, feed, run, started, nPub, nEnv, lim, hist, dbUp, regVars, notify, lost>>

InitQuery ==
    /\ lim = [env |-> 0, passes |-> 0, manual |-> 0]
    /\ news \in QueryStores
    /\ feed = InitFeed
    /\ run = [p \in Procs |-> Idle]
    /\ started = [p \in Procs |-> 0]
    /\ nPub = 0
    /\ nEnv = 0
    /\ ev \in NewsCommands
    /\ hist = [p \in Procs |-> [calm |-> FALSE, since |-> FALSE, added |-> 0,
                                db0 |-> << >>]]
    /\ dbUp = TRUE
    /\ lost = {}
    /\ NoRegistry

NextQuery == GetNews

SpecQuery == InitQuery /\ [][NextQuery]_vars

(***************************************************************************)
(* The fetchers of src/fetchers: fetch_news over the listing of one        *)
(* category.  The categories of a fetcher are fetched one after the other  *)
(* with a latest_dt of their own, and nothing but the returned list is     *)
(* carried from one to the next.                                           *)
(***************************************************************************)
\* The tuples (self.source, channel, title, full_url, date_str) of a page.
FetcherDecode(source, entries) ==
    [i \in 1..Len(entries) |->
        [source |-> source, channel |-> "cat", title |-> entries[i].title,
         url |-> entries[i].url, pub_date |-> entries[i].date]]

\* latest_dt of a category: the date parsed from latest_dates[channel],
\* NoDt when the pass is forced, when the entry is missing or when
\* strptime raises.
FetcherLatestDt(force_update, latest) ==
    IF ~force_update /\ Truthy(latest) THEN Strptime(latest) ELSE NoDt

\* The filter of JwcFetcher (lines 112-124) and of ElectronicFetcher
\* (lines 103-115) over one page.
FilteredNews(page_news, latest_dt) ==
    SelectSeq(page_news, LAMBDA item :
        /\ item.pub_date # UNKNOWN_DATE
        /\ Strptime(item.pub_date) # NoDt
        /\ Strptime(item.pub_date) > latest_dt)

\* The while loop of JwcFetcher.fetch_news and of
\* ElectronicFetcher.fetch_news from page number page on; the requests of
\* the pages after ok_pages fail, and a page after the last one has no
\* entry.
RECURSIVE FilteringPages(_, _, _, _, _, _, _)
FilteringPages(source, listing, force_update, latest_dt, page, ok_pages, new_news) ==
    LET page_news == FetcherDecode(source, PageOf(listing, page))
        filtered_news == FilteredNews(page_news, latest_dt)
    IN  IF page > ok_pages \/ page_news = << >> THEN new_news
        ELSE IF ~force_update /\ latest_dt # NoDt
        THEN IF filtered_news # << >>
             THEN IF Len(filtered_news) < Len(page_news)
                  THEN new_news \o filtered_news
                  ELSE FilteringPages(source, listing, force_update, latest_dt,
                                      page + 1, ok_pages, new_news \o filtered_news)
             ELSE new_news
        ELSE FilteringPages(source, listing, force_update, latest_dt,
                            page + 1, ok_pages, new_news \o page_news)

\* SflFetcher, lines 96-104: whether an entry sets include_item to False.
SflExcluded(item, force_update, latest_dt) ==
    /\ ~force_update /\ latest_dt # NoDt
    /\ item.pub_date # UNKNOWN_DATE
    /\ Strptime(item.pub_date) # NoDt
    /\ Strptime(item.pub_date) <= latest_dt

\* The while loop of SflFetcher.fetch_news from page number page on.
RECURSIVE SflPages(_, _, _, _, _, _, _)
SflPages(source, listing, force_update, latest_dt, page, ok_pages, news_list) ==
    LET entries == FetcherDecode(source, PageOf(listing, page))
        page_items == SelectSeq(entries, LAMBDA item :
                          ~SflExcluded(item, force_update, latest_dt))
        stop_category == \E i \in 1..Len(entries) :
                             SflExcluded(entries[i], force_update, latest_dt)
    IN  IF page > ok_pages \/ page_items = << >> THEN news_list
        ELSE IF ~force_update /\ latest_dt # NoDt /\ stop_category
        THEN news_list \o page_items
        ELSE SflPages(source, listing, force_update, latest_dt,
                      page + 1, ok_pages, news_list \o page_items)

\* fetch_news of the fetcher of a source over one category.
fetch_news(source, listing, force_update, latest, ok_pages) ==
    IF source = "sfl"
    THEN SflPages(source, listing, force_update,
                  FetcherLatestDt(force_update, latest), 1, ok_pages, << >>)
    ELSE FilteringPages(source, listing, force_update,
                        FetcherLatestDt(force_update, latest), 1, ok_pages, << >>)

\* The listings a fetcher reads: up to MaxListed entries, any date text.
Listings ==
    UNION {[1..n -> [title : {"t0"}, url : {0}, date : DateStrs]] : n \in 0..MaxListed}

\* The calls fetch_news(force_update, latest_dates) a caller makes.
FetchCalls ==
    [kind : {"fetch_call"}, force_update : BOOLEAN,
     latest : {None, "2024-01-10", "2024-01-12", UNKNOWN_DATE}]

\* The listing with its entries linked 1, 2, ... from the top.
Linked(listing) == [i \in 1..Len(listing) |-> [listing[i] EXCEPT !.url = i]]

\* One call of fetch_news runs to its return.
Fetch(source) ==
    /\ ev.kind = "fetch_call"
    /\ \E ok_pages \in 0..(PagesShown(feed[1]) + 1) :
          ev' = [kind |-> "fetch", source |-> source,
                 force_update |-> ev.force_update, latest |-> ev.latest,
                 ok_pages |-> ok_pages,
                 result |-> fetch_news(source, feed[1], ev.force_update,
                                       ev.latest, ok_pages)]
    /\ UNCHANGED <<news, feed, run, started, nPub, nEnv, lim, hist, dbUp, regVars, notify, lost>>

JwcFetch == Fetch("jwc")

ElectronicFetch == Fetch("electronic")

SflFetch == Fetch("sfl")

InitFetch ==
    /\ lim = [env |-> 0, passes |-> 0, manual |-> 0]
    /\ news = << >>
    /\ \E listing \in Listings :
          feed = [c \in ChIdx |-> IF c = 1 THEN Linked(listing) ELSE << >>]
    /\ run = [p \in Procs |-> Idle]
    /\ started = [p \in Procs |-> 0]
    /\ nPub = 0
    /\ nEnv = 0
    /\ ev \in FetchCalls
    /\ hist = [p \in Procs |-> [calm |-> FALSE, since |-> FALSE, added |-> 0,
                                db0 |-> << >>]]
    /\ dbUp = TRUE
    /\ lost = {}
    /\ NoRegistry

NextFetch ==
    \/ JwcFetch
    \/ ElectronicFetch
    \/ SflFetch

SpecFetch == InitFetch /\ [][NextFetch]_vars

(***************************************************************************)
(* The subscription commands and the restart of the plugin.                *)
(***************************************************************************)
\* Line 336: self.auto_notify_origins.add(origin).
Added(origins, origin) == origins \cup {origin}

\* The fan-out loop when a command changes the set it iterates over.
Mutate(origin) ==
    IF notify.pc = "sending"
    THEN [notify EXCEPT !.mutated = TRUE, !.stayed = @ \ {origin}]
    ELSE notify

\* /news auto from an origin (lines 326-338).
Subscribe ==
    \E origin \in ORIGINS :
        /\ nEnv < lim.env
        /\ nEnv' = nEnv + 1
        /\ cmds' = [cmds EXCEPT ![origin] = "subscribe"]
        /\ IF origin \in auto_notify_origins
           THEN /\ ev' = [kind |-> "cmd", cmd |-> "subscribe", origin |-> origin,
                          before |-> auto_notify_origins, repeat |-> cmds[origin] = "subscribe",
                          changed |-> FALSE, saved |-> FALSE, file0 |-> auto_notify_file]
                /\ UNCHANGED <<auto_notify_origins, auto_notify_file, notify>>
           ELSE /\ auto_notify_origins' = Added(auto_notify_origins, origin)
                /\ \E out \in save_auto_notify_origins(auto_notify_file,
                                                       auto_notify_origins') :
                      /\ auto_notify_file' = out.file
                      /\ ev' = [kind |-> "cmd", cmd |-> "subscribe", origin |-> origin,
                                before |-> auto_notify_origins,
                                repeat |-> cmds[origin] = "subscribe",
                                changed |-> TRUE, saved |-> out.saved,
                                file0 |-> auto_notify_file]
                /\ notify' = Mutate(origin)
        /\ UNCHANGED <<news, feed, run, started, nPub, lim, hist, dbUp, lost>>

\* /news auto off from an origin (lines 340-352).
Unsubscribe ==
    \E origin \in ORIGINS :
        /\ nEnv < lim.env
        /\ nEnv' = nEnv + 1
        /\ cmds' = [cmds EXCEPT ![origin] = "unsubscribe"]
        /\ IF origin \in auto_notify_origins
           THEN /\ auto_notify_origins' = auto_notify_origins \ {origin}
                /\ \E out \in save_auto_notify_origins(auto_notify_file,
                                                       auto_notify_origins') :
                      /\ auto_notify_file' = out.file
                      /\ ev' = [kind |-> "cmd", cmd |-> "unsubscribe", origin |-> origin,
                                before |-> auto_notify_origins,
                                repeat |-> cmds[origin] = "unsubscribe",
                                changed |-> TRUE, saved |-> out.saved,
                                file0 |-> auto_notify_file]
                /\ notify' = Mutate(origin)
           ELSE /\ ev' = [kind |-> "cmd", cmd |-> "unsubscribe", origin |-> origin,
                          before |-> auto_notify_origins,
                          repeat |-> cmds[origin] = "unsubscribe",
                          changed |-> FALSE, saved |-> FALSE, file0 |-> auto_notify_file]
                /\ UNCHANGED <<auto_notify_origins, auto_notify_file, notify>>
        /\ UNCHANGED <<news, feed, run, started, nPub, lim, hist, dbUp, lost>>

\* The host stops the plugin and constructs it again: __init__ loads the
\* registry from the file and creates a new task scheduled_check.
PluginInit ==
    /\ nEnv < lim.env
    /\ nEnv' = nEnv + 1
    /\ auto_notify_origins' = load_auto_notify_origins(auto_notify_file).value
    /\ cmds' = [o \in ORIGINS |-> "none"]
    /\ run' = [p \in Procs |-> Idle]
    /\ notify' = NoFanout
    /\ hist' = Disturb(Procs)
    /\ ev' = [kind |-> "load", file |-> auto_notify_file,
              raised |-> load_auto_notify_origins(auto_notify_file).raised]
    /\ UNCHANGED <<news, feed, started, nPub, lim, dbUp, auto_notify_file, lost>>

\* The plugin is constructed over any file.
InitRegistry ==
    /\ lim = [env |-> RegEnv, passes |-> 0, manual |-> 0]
    /\ news = << >>
    /\ feed = InitFeed
    /\ run = [p \in Procs |-> Idle]
    /\ started = [p \in Procs |-> 0]
    /\ nPub = 0
    /\ nEnv = 0
    /\ hist = [p \in Procs |-> [calm |-> FALSE, since |-> FALSE, added |-> 0,
                                db0 |-> << >>]]
    /\ dbUp = TRUE
    /\ lost = {}
    /\ auto_notify_file \in FileContents
    /\ auto_notify_origins = load_auto_notify_origins(auto_notify_file).value
    /\ ev = [kind |-> "load", file |-> auto_notify_file,
             raised |-> load_auto_notify_origins(auto_notify_file).raised]
    /\ cmds = [o \in ORIGINS |-> "none"]
    /\ notify = NoFanout

NextRegistry ==
    \/ Subscribe
    \/ Unsubscribe
    \/ PluginInit

SpecRegistry == InitRegistry /\ [][NextRegistry]_vars

(***************************************************************************)
(* get_page_url (lines 79-85) over the base URLs and some of the page      *)
(* identifiers of GROUPS.                                                  *)
(***************************************************************************)
\* get_page_url when every page is given its number.
GetPageUrlNumbered(base_url, identifier, page) ==
    base_url \o "/" \o identifier \o "/list" \o NumText(page) \o ".htm"

\* Line 85.
get_page_url(base_url, identifier, page) ==
    IF page = 1 THEN base_url \o "/" \o identifier \o "/list.htm"
    ELSE base_url \o "/" \o identifier \o "/list" \o NumText(page) \o ".htm"

BaseUrls ==
    {"https://jwc.seu.edu.cn", "https://sfl.seu.edu.cn", "https://electronic.seu.edu.cn"}

Identifiers == {"zxdt", "jwxx", "9827", "9828", "24046", "11484", "sywxsgz"}

\* The calls get_page_url(base_url, identifier, page) of lines 160 and 182.
UrlCalls ==
    [kind : {"url_call"}, base_url : BaseUrls, identifier : Identifiers,
     page : 1..MaxUrlPage]

\* The call returns; urls holds what the call returns for every page
\* number of the same channel.
GetPageUrl ==
    /\ ev.kind = "url_call"
    /\ ev' = [kind |-> "url", base_url |-> ev.base_url, identifier |-> ev.identifier,
              page |-> ev.page,
              url |-> get_page_url(ev.base_url, ev.identifier, ev.page),
              urls |-> [q \in 1..MaxUrlPage |->
                          get_page_url(ev.base_url, ev.identifier, q)]]
    /\ UNCHANGED <<news, feed, run, started, nPub, nEnv, lim, hist, dbUp, regVars, notify, lost>>

InitUrl ==
    /\ lim = [env |-> 0, passes |-> 0, manual |-> 0]
    /\ news = << >>
    /\ feed = InitFeed
    /\ run = [p \in Procs |-> Idle]
    /\ started = [p \in Procs |-> 0]
    /\ nPub = 0
    /\ nEnv = 0
    /\ ev \in UrlCalls
    /\ hist = [p \in Procs |-> [calm |-> FALSE, since |-> FALSE, added |-> 0,
                                db0 |-> << >>]]
    /\ dbUp = TRUE
    /\ lost = {}
    /\ NoRegistry

NextUrl == GetPageUrl

SpecUrl == InitUrl /\ [][NextUrl]_vars

(***************************************************************************)
(* The driver with subscribers: the loop of lines 115-120 sends the batch  *)
(* to the origins of self.auto_notify_origins, and the handlers of         *)
(* /news auto and /news auto off run while it awaits send_message.         *)
(***************************************************************************)
\* What next() of the set iterator can yield once send_message is over.
\* A set that was changed and has its size again is walked in an order
\* that the changes have disturbed: an origin can come again or be missed.
NextOrigins ==
    IF notify.mutated THEN auto_notify_origins
    ELSE auto_notify_origins \ notify.visited

\* Whether next() can end the loop.
CanStop == notify.mutated \/ auto_notify_origins \ notify.visited = {}

\* The await of send_message is over; ok tells whether it returned or
\* raised an exception, which line 119 catches.  Then the for statement
\* asks its iterator for the next origin: a set whose size differs from
\* the one the iterator started with raises RuntimeError, outside the try
\* block, and scheduled_check ends with it.
SendOver(ok) ==
    /\ notify.pc = "sending"
    /\ ev' = [kind |-> "send", origin |-> notify.sends[Len(notify.sends)], ok |-> ok]
    /\ IF Cardinality(auto_notify_origins) # notify.size
       THEN /\ notify' = [notify EXCEPT !.pc = "raised"]
            /\ run' = [run EXCEPT !["sched"].pc = "raised"]
       ELSE /\ \/ \E o \in NextOrigins :
                     /\ Len(notify.sends) < MaxSends
                     /\ notify' = [notify EXCEPT !.visited = @ \cup {o},
                                                  !.sends = Append(@, o)]
               \/ /\ CanStop
                  /\ notify' = [notify EXCEPT !.pc = "done"]
            /\ UNCHANGED run
    /\ UNCHANGED <<news, feed, started, nPub, nEnv, lim, hist, dbUp, regVars, lost>>

SendOk == SendOver(TRUE)

SendFail == SendOver(FALSE)

\* The plugin is constructed over any file, the sites as in Init.
InitNotify ==
    /\ lim = [env |-> NotifyEnv, passes |-> NotifyPasses, manual |-> 0]
    /\ news = << >>
    /\ feed = InitFeed
    /\ run = [p \in Procs |-> Idle]
    /\ started = [p \in Procs |-> 0]
    /\ nPub = 0
    /\ nEnv = 0
    /\ ev = NoEv
    /\ hist = [p \in Procs |-> [calm |-> FALSE, since |-> FALSE, added |-> 0,
                                db0 |-> << >>]]
    /\ dbUp = TRUE
    /\ lost = {}
    /\ auto_notify_file \in FileContents
    /\ auto_notify_origins = load_auto_notify_origins(auto_notify_file).value
    /\ cmds = [o \in ORIGINS |-> "none"]
    /\ notify = NoFanout

NextNotify ==
    \/ SchedStart
    \/ FirstGetOk
    \/ PageGetOk
    \/ SleepDone
    \/ SendOk
    \/ SendFail
    \/ Subscribe
    \/ Unsubscribe

SpecNotify == InitNotify /\ [][NextNotify]_vars

(***************************************************************************)
(* The driver of a plugin that is constructed over the store of an earlier *)
(* run: the channels of Publishing list one dated entry, which the earlier *)
(* run has stored.                                                         *)
(***************************************************************************)
SeedFeed ==
    [c \in ChIdx |-> IF c \in Publishing
                     THEN << [title |-> "t0", url |-> 1, date |-> "2024-01-10"] >>
                     ELSE InitFeed[c]]

\* The table after the earlier run has inserted the entries of the
\* channels of Publishing.
RECURSIVE SeedStore(_)
SeedStore(c) ==
    IF c = 0 THEN << >>
    ELSE IF c \in Publishing
         THEN insert_news(SeedStore(c - 1), Decode(c, SeedFeed[c]), Channels[c].key)
         ELSE SeedStore(c - 1)

InitSeeded ==
    /\ lim = [env |-> SeedEnv, passes |-> SeedPasses, manual |-> 0]
    /\ news = SeedStore(NCh)
    /\ feed = SeedFeed
    /\ run = [p \in Procs |-> Idle]
    /\ started = [p \in Procs |-> 0]
    /\ nPub = 1
    /\ nEnv = 0
    /\ ev = NoEv
    /\ hist = [p \in Procs |-> [calm |-> FALSE, since |-> FALSE, added |-> 0,
                                db0 |-> << >>]]
    /\ dbUp = TRUE
    /\ lost = {}
    /\ NoRegistry

NextSeeded ==
    \/ SchedStart
    \/ FirstGetOk
    \/ PageGetOk
    \/ SleepDone
    \/ Publish

SpecSeeded == InitSeeded /\ [][NextSeeded]_vars

(***************************************************************************)
(* The same driver over the store of an earlier run, with page requests    *)
(* that may fail and a pass after the one that met the failure.            *)
(***************************************************************************)
InitRetry ==
    /\ lim = [env |-> RetryEnv, passes |-> RetryPasses, manual |-> 0]
    /\ news = SeedStore(NCh)
    /\ feed = SeedFeed
    /\ run = [p \in Procs |-> Idle]
    /\ started = [p \in Procs |-> 0]
    /\ nPub = 1
    /\ nEnv = 0
    /\ ev = NoEv
    /\ hist = [p \in Procs |-> [calm |-> FALSE, since |-> FALSE, added |-> 0,
                                db0 |-> << >>]]
    /\ dbUp = TRUE
    /\ lost = {}
    /\ NoRegistry

NextRetry ==
    \/ SchedStart
    \/ FirstGetOk
    \/ PageGetOk
    \/ PageGetFail
    \/ SleepDone
    \/ Publish

SpecRetry == InitRetry /\ [][NextRetry]_vars

(***************************************************************************)
(* The driver with its subscribers over sites that publish: the plugin is  *)
(* constructed over any file, and every pass that returns a batch to a     *)
(* registry that is not empty sends it.                                    *)
(***************************************************************************)
InitDup ==
    /\ lim = [env |-> DupEnv, passes |-> DupPasses, manual |-> 0]
    /\ news = << >>
    /\ feed = InitFeed
    /\ run = [p \in Procs |-> Idle]
    /\ started = [p \in Procs |-> 0]
    /\ nPub = 0
    /\ nEnv = 0
    /\ ev = NoEv
    /\ hist = [p \in Procs |-> [calm |-> FALSE, since |-> FALSE, added |-> 0,
                                db0 |-> << >>]]
    /\ dbUp = TRUE
    /\ lost = {}
    /\ auto_notify_file \in FileContents
    /\ auto_notify_origins = load_auto_notify_origins(auto_notify_file).value
    /\ cmds = [o \in ORIGINS |-> "none"]
    /\ notify = NoFanout

NextDup ==
    \/ SchedStart
    \/ FirstGetOk
    \/ PageGetOk
    \/ SleepDone
    \/ SendOk
    \/ SendFail
    \/ Publish

SpecDup == InitDup /\ [][NextDup]_vars

(***************************************************************************)
(* Properties.                                                             *)
(***************************************************************************)
Parseable(date_str) == Strptime(date_str) # NoDt

InSeq(x, seq) == \E i \in 1..Len(seq) : seq[i] = x

\* The rows the last step appended to the table.
StoredNow == SubSeq(news, Len(ev.before) + 1, Len(news))

\* The last step classified a page in a non-forced pass whose watermark
\* parsed.
EvCutoff == ev.kind = "page" /\ ~ev.force /\ ev.read_dt # NoDt

EvItems == {ev.page_news[i] : i \in 1..Len(ev.page_news)}

NewerThanW(item) ==
    Parseable(item.pub_date) /\ Strptime(item.pub_date) > ev.read_dt

\* The classified page is mixed: an item newer than W and one that is not.
EvMixed ==
    /\ EvCutoff
    /\ \E a, b \in EvItems : NewerThanW(a) /\ ~NewerThanW(b)

\* The requests and inserts of a pass go through the channels in order.
TraceInOrder(p) ==
    LET t == run[p].trace
    IN  /\ \A i, j \in 1..Len(t) : i < j => t[i].ch <= t[j].ch
        /\ \A i \in 1..Len(t) : t[i].ch <= run[p].ch

\* C2: after a mixed page of a non-forced pass with active cutoff, exactly
\* the newer items of the page are reported, in page order, and stored,
\* and the pass has left the channel for good: no later page of it is
\* requested in this pass.
Thm_C2 ==
    /\ EvMixed =>
          /\ ev.reported = SelectSeq(ev.page_news, NewerThanW)
          /\ \A item \in EvItems : NewerThanW(item) => HasUrl(news, item.url)
          /\ run[ev.p].ch > ev.ch
          /\ ~\E i \in 1..Len(run[ev.p].trace) :
                 /\ run[ev.p].trace[i].ch = ev.ch
                 /\ run[ev.p].trace[i].page > ev.page
    /\ \A p \in Procs : TraceInOrder(p)

\* A mixed page [2024-01-12, 2024-01-10] classified against the watermark
\* 2024-01-10 while the site lists a later page of the channel.
Wit_C2 ==
    /\ EvMixed
    /\ ev.read_dt = 20240110
    /\ Len(ev.page_news) = 2
    /\ ev.page_news[1].pub_date = "2024-01-12"
    /\ ev.page_news[2].pub_date = "2024-01-10"
    /\ Len(ev.reported) = 1
    /\ Len(feed[ev.ch]) > ev.page * PageSize

\* C3: an item whose date string is unparsable or the unknown-date
\* sentinel is reported and persisted by the page step that decodes it,
\* whatever the watermark.
Claim_C3 ==
    ev.kind = "page" =>
        \A item \in EvItems :
            ~Parseable(item.pub_date) =>
                InSeq(item, ev.reported) /\ HasUrl(news, item.url)

\* The watermark of channel c as a pass would read it from the store db.
Watermark(db, c) ==
    LET latest_date == get_latest_date(db, Channels[c].key)
    IN  IF latest_date = None THEN NoDt ELSE Strptime(latest_date)

\* C4: a page step that stores only items with an unparsable or unknown
\* date leaves the watermark of every channel as it was.
Claim_C4 ==
    (/\ ev.kind = "page"
     /\ Len(StoredNow) > 0
     /\ \A i \in 1..Len(StoredNow) : ~Parseable(StoredNow[i].pub_date))
    => \A c \in ChIdx : Watermark(news, c) = Watermark(ev.before, c)

RowsOf(url) == {i \in 1..Len(news) : news[i].url = url}

OneRowPerLink ==
    \A i, j \in 1..Len(news) : news[i].url = news[j].url => i = j

RowsKept ==
    \A i \in 1..Len(news) : i <= Len(news') /\ news'[i] = news[i]

\* C6: the table holds at most one row per link, and no step of a
\* scheduled pass or of a full resync changes or removes a stored row: an
\* insert of a stored link keeps the first-seen content.
Thm_C6 == []OneRowPerLink /\ [][RowsKept]_vars

\* A pass has passed to insert_news an item whose link is stored with
\* another title and another date.
Wit_C6 ==
    /\ ev.kind = "page"
    /\ \E item \in EvItems :
          /\ InSeq(item, ev.reported)
          /\ \E i \in 1..Len(ev.before) :
                /\ ev.before[i].url = item.url
                /\ ev.before[i].title # item.title
                /\ ev.before[i].pub_date # item.pub_date
                /\ news[i] = ev.before[i]

\* The links a coroutine has passed to insert_news in its pass: every list
\* given to insert_news is appended to new_news_all.
Attempted(p) ==
    {run[p].new_news_all[i].url : i \in 1..Len(run[p].new_news_all)}

InPass(p) == run[p].pc \in {"first_get", "page_get", "sleep"}

\* C7: a link that both the scheduled pass and the full resync have
\* passed to insert_news is stored in exactly one row.
Thm_C7 ==
    \A url \in Attempted("sched") \cap Attempted("manual") :
        Cardinality(RowsOf(url)) = 1

\* Both passes are in progress on the same channel, each got the page from
\* its own request and each has passed the same link to insert_news.
Wit_C7 ==
    /\ InPass("sched") /\ InPass("manual")
    /\ run["sched"].ch = run["manual"].ch
    /\ Attempted("sched") \cap Attempted("manual") # {}

\* The watermark reads of channel c in the trace of a pass.
Reads(t, c) == {i \in 1..Len(t) : t[i].e = "read" /\ t[i].ch = c}

\* C8: a non-forced pass reads the watermark of a channel once, before any
\* request or insert for that channel, and classifies every page of the
\* channel against the value it read then.
Thm_C8 ==
    /\ \A p \in Procs : \A c \in ChIdx :
          LET t == run[p].trace
          IN  (~run[p].force /\ \E j \in 1..Len(t) : t[j].ch = c) =>
                  /\ Cardinality(Reads(t, c)) = 1
                  /\ \A j \in 1..Len(t) :
                        (t[j].ch = c /\ t[j].e # "read") =>
                            \E i \in Reads(t, c) : i < j
    /\ (ev.kind = "page" /\ ~ev.force) =>
          LET t == run[ev.p].trace
          IN  \A i \in Reads(t, ev.ch) : ev.used_dt = t[i].dt

\* A second page classified against the snapshot 2024-01-10 after the
\* first page of the same pass moved the stored maximum to 2024-01-12.
Wit_C8 ==
    /\ EvCutoff
    /\ ev.page = 2
    /\ ev.used_dt = 20240110
    /\ Watermark(ev.before, ev.ch) = 20240112
    /\ Len(ev.page_news) > 0

\* The parseable dates stored under the key of channel c.
DatesOf(c) ==
    {Strptime(news[i].pub_date) :
        i \in {j \in 1..Len(news) : /\ news[j].key = Channels[c].key
                                    /\ Parseable(news[j].pub_date)}}

\* C9: get_latest_date of a key returns the maximum published date of the
\* rows stored under the key, and None if and only if there is none.
Claim_C9 ==
    \A c \in ChIdx :
        LET latest_date == get_latest_date(news, Channels[c].key)
        IN  /\ latest_date = None <=>
                   ~\E i \in 1..Len(news) : news[i].key = Channels[c].key
            /\ DatesOf(c) # {} =>
                   /\ Strptime(latest_date) \in DatesOf(c)
                   /\ \A d \in DatesOf(c) : d <= Strptime(latest_date)

\* The failures, and the first-page requests, in the trace of a pass.
Failed(t, c) == \E i \in 1..Len(t) : t[i].e = "fail" /\ t[i].ch = c

Requested(t, c) == \E i \in 1..Len(t) : t[i].e = "get" /\ t[i].ch = c /\ t[i].page = 0

\* C10: a failed request ends the pagination of its channel only: the
\* pass goes on with the next channel, or returns after the last one, and
\* a pass that has returned has requested the first page of every channel
\* of every source.
Thm_C10 ==
    /\ ev.kind = "fail" =>
          /\ run[ev.p].ch = ev.ch + 1
          /\ run[ev.p].pc = IF ev.ch < NCh THEN "first_get" ELSE "returned"
    /\ \A p \in Procs :
          run[p].pc = "returned" => \A c \in ChIdx : Requested(run[p].trace, c)

\* A pass has returned after a failed request on the first channel, and
\* has stored the entries of the other channel of that source and of the
\* other source.
Wit_C10 ==
    /\ run["sched"].pc = "returned"
    /\ Failed(run["sched"].trace, 1)
    /\ \A c \in {2, 3} :
          \E i \in 1..Len(run["sched"].trace) :
              run["sched"].trace[i].e = "insert" /\ run["sched"].trace[i].ch = c

\* A statement that a pass sent to the store raised.
StorageFailed(t) ==
    \E i \in 1..Len(t) : t[i].e \in {"read_raised", "insert_raised"}

\* C11: a storage failure during a scheduled pass does not end the
\* periodic driver: after it the driver is still in its pass or asleep
\* between two passes.
Claim_C11 ==
    StorageFailed(run["sched"].trace) =>
        run["sched"].pc \in {"first_get", "page_get", "sleep", "returned"}

\* C12: once insert_news has raised in a pass, the pass sends no further
\* request, and the items of the call that raised are not reported.
Claim_C12 ==
    /\ \A p \in Procs :
          LET t == run[p].trace
          IN  \A i, j \in 1..Len(t) :
                  (i < j /\ t[i].e = "insert_raised") => t[j].e # "get"
    /\ (ev.kind = "page" /\ ~dbUp) => ev.reported = << >>

\* C13: every item in the list a pass returns was inserted by that pass:
\* its link was not stored when the pass started and is stored when the
\* pass returns.
Claim_C13 ==
    \A p \in Procs :
        run[p].pc = "returned" =>
            \A i \in 1..Len(run[p].new_news_all) :
                /\ ~HasUrl(hist[p].db0, run[p].new_news_all[i].url)
                /\ HasUrl(news, run[p].new_news_all[i].url)

\* A row with a parseable date was stored under the key of channel c when
\* pass p started; rows are never removed, so it was stored when the pass
\* read the watermark.
DatedAtStart(p, c) ==
    \E i \in 1..Len(hist[p].db0) :
        /\ hist[p].db0[i].key = Channels[c].key
        /\ Parseable(hist[p].db0[i].pub_date)

\* C15: in a non-forced pass the cutoff is active on every channel that
\* has a stored item, and so on every channel that had a stored item with
\* a parseable date when the pass started.
Claim_C15 ==
    \A p \in Procs :
        (InPass(p) /\ ~run[p].force /\ DatedAtStart(p, run[p].ch)) =>
            CutoffActive(run[p])

\* The last step handled a non-empty page with the cutoff inactive: a
\* full resync, or no parsed watermark.
EvNoCutoff ==
    /\ ev.kind = "page"
    /\ ev.force \/ ev.read_dt = NoDt
    /\ ev.page_news # << >>

\* A step of a pass that sleeps after a page: it requests the next page of
\* the channel while the page number is at most total_pages, and leaves
\* the channel otherwise.
SleepThenNext ==
    \A p \in Procs :
        (run[p].pc = "sleep" /\ run'[p] # run[p]) =>
            IF run[p].page <= run[p].total_pages
            THEN /\ run'[p].pc = "page_get"
                 /\ run'[p].ch = run[p].ch
                 /\ run'[p].page = run[p].page
            ELSE run'[p].ch = run[p].ch + 1

EvAllOld ==
    /\ EvCutoff
    /\ ev.page_news # << >>
    /\ \A item \in EvItems : ~NewerThanW(item)

\* C17: a non-empty page of a non-forced pass with active cutoff of which
\* no item is kept ends the pagination of the channel: nothing is stored
\* or reported, no later page of the channel is requested and the pass is
\* at the next channel, or has returned after the last one.
Thm_C17 ==
    EvAllOld =>
        /\ ev.reported = << >>
        /\ news = ev.before
        /\ run[ev.p].ch = ev.ch + 1
        /\ run[ev.p].pc = IF ev.ch < NCh THEN "first_get" ELSE "returned"
        /\ ~\E i \in 1..Len(run[ev.p].trace) :
               /\ run[ev.p].trace[i].ch = ev.ch
               /\ run[ev.p].trace[i].e \in {"get", "insert"}
               /\ run[ev.p].trace[i].page >= ev.page
               /\ ~(run[ev.p].trace[i].e = "get" /\ run[ev.p].trace[i].page = ev.page)

\* Page 1 of a channel holds two entries dated as the watermark, and the
\* site lists a later page of the channel.
Wit_C17 ==
    /\ EvAllOld
    /\ ev.page = 1
    /\ Len(ev.page_news) = 2
    /\ \A item \in EvItems : Strptime(item.pub_date) = ev.read_dt
    /\ Len(feed[ev.ch]) > PageSize
    /\ run[ev.p].ch = ev.ch + 1

\* The last step got a page without data: no container element, or no
\* item decoded.
EvNoData ==
    \/ ev.kind = "no_div"
    \/ ev.kind = "page" /\ ev.page_news = << >>

\* C18: a fetched page without the container element, or of which no item
\* is decoded, ends the pagination of the channel without error: the store
\* is as before the page, no later page of the channel is requested and
\* the pass is at the next channel, or has returned after the last one.
Thm_C18 ==
    EvNoData =>
        /\ news = ev.before
        /\ run[ev.p].ch = ev.ch + 1
        /\ run[ev.p].pc = IF ev.ch < NCh THEN "first_get" ELSE "returned"
        /\ ~\E i \in 1..Len(run[ev.p].trace) :
               /\ run[ev.p].trace[i].ch = ev.ch
               /\ run[ev.p].trace[i].e = "get"
               /\ run[ev.p].trace[i].page > ev.page

\* In one pass, page 1 of a channel with 2 declared pages came without
\* the container, and page 1 of the next channel decoded to no item.
Wit_C18 ==
    /\ ev.kind = "page" /\ ev.page_news = << >> /\ ev.page = 1
    /\ LET t == run[ev.p].trace
       IN  \E i, j \in 1..Len(t) :
               /\ t[i].e = "pages" /\ t[i].dt = 2
               /\ t[j].e = "no_div" /\ t[j].page = 1
               /\ t[i].ch = t[j].ch /\ t[j].ch < ev.ch

\* The text of the last <em> of an indicator.
LastEm(page_span) == page_span.ems[Len(page_span.ems)]

\* The indicator has a last marker that is a number.
Numeric(page_span) ==
    /\ page_span.found
    /\ page_span.ems # << >>
    /\ IntOf(LastEm(page_span)) # NoInt

\* C19: after the first page, total_pages is the number in the last
\* marker of the indicator, and 1 when there is no indicator, no marker
\* or no number in the last marker; in those cases too the pass goes on
\* to request page 1 of the channel.
Thm_C19 ==
    ev.kind = "first" =>
        LET T == IF Numeric(ev.page_span) THEN IntOf(LastEm(ev.page_span)) ELSE 1
            t == run[ev.p].trace
        IN  /\ \E i \in 1..Len(t) :
                   t[i].e = "pages" /\ t[i].ch = ev.ch /\ t[i].dt = T
            /\ T >= 1 =>
                   /\ run[ev.p].pc = "page_get"
                   /\ run[ev.p].ch = ev.ch
                   /\ run[ev.p].page = 1
                   /\ run[ev.p].total_pages = T
            /\ ~Numeric(ev.page_span) => T = 1

\* The first page of a channel carried an indicator whose last marker is
\* no number and the pass requests page 1 of 1, after the padded marker
\* " 2 " of an earlier channel of the pass was read as 2.
Wit_C19 ==
    /\ ev.kind = "first"
    /\ ev.page_span.ems = <<"1", "x">>
    /\ run[ev.p].total_pages = 1
    /\ run[ev.p].pc = "page_get"
    /\ \E i \in 1..Len(run[ev.p].trace) :
          /\ run[ev.p].trace[i].e = "pages"
          /\ run[ev.p].trace[i].ch < ev.ch
          /\ run[ev.p].trace[i].dt = 2

\* The requests of the pages of channel c in the trace of a pass.
PageGets(t, c) ==
    {i \in 1..Len(t) : t[i].e = "get" /\ t[i].ch = c /\ t[i].page >= 1}

\* Every page request of a pass follows the detection of total_pages of
\* its channel, asks for a page up to total_pages, and the channel has at
\* most total_pages of them.
PagesBounded ==
    \A p \in Procs : \A c \in ChIdx :
        LET t == run[p].trace
        IN  \A i \in PageGets(t, c) :
                \E k \in 1..Len(t) :
                    /\ t[k].e = "pages" /\ t[k].ch = c /\ k < i
                    /\ t[i].page <= t[k].dt
                    /\ Cardinality(PageGets(t, c)) <= t[k].dt

IssuesLaterGet(p) ==
    LET t == run[p].trace
        u == run'[p].trace
    IN  /\ Len(u) > Len(t)
        /\ SubSeq(u, 1, Len(t)) = t
        /\ \E i \in 1..Len(t) : t[i].e = "get"
        /\ \E i \in (Len(t) + 1)..Len(u) : u[i].e = "get"

\* C20: every request of a pass but its first is issued when the 1 second
\* sleep of the pass ends, so that the delay lies between any two
\* consecutive requests.
Claim_C20 ==
    [][\A p \in Procs : IssuesLaterGet(p) => run[p].pc = "sleep"]_vars

\* The links of the rows of a reply to /news.
LinksOf(rows) == {rows[k].url : k \in 1..Len(rows)}

\* The last step answered a /news with a source and both ends of a range.
EvRangeQuery ==
    /\ ev.kind = "query"
    /\ Truthy(ev.source) /\ Truthy(ev.start_date) /\ Truthy(ev.end_date)

\* C21: a /news with a source, a start_date and an end_date returns only
\* rows of that source published from start_date to end_date, both days
\* included, the newest first, and every stored row of the source that was
\* published on the day start_date or on the day end_date is among them
\* (here: is in the reply when the reply is the whole of the first page).
Claim_C21 ==
    EvRangeQuery =>
        /\ \A k \in 1..Len(ev.result) :
              /\ ev.result[k].source = ev.source
              /\ Parseable(ev.result[k].pub_date)
              /\ Strptime(ev.result[k].pub_date) >= Strptime(ev.start_date)
              /\ Strptime(ev.result[k].pub_date) <= Strptime(ev.end_date)
        /\ \A k \in 1..(Len(ev.result) - 1) :
              Strptime(ev.result[k].pub_date) >= Strptime(ev.result[k + 1].pub_date)
        /\ (ev.page = 1 /\ Len(ev.result) < per_page /\
            Strptime(ev.start_date) <= Strptime(ev.end_date)) =>
              \A i \in 1..Len(news) :
                  (/\ news[i].source = ev.source
                   /\ Strptime(news[i].pub_date) \in
                          {Strptime(ev.start_date), Strptime(ev.end_date)})
                  => news[i].url \in LinksOf(ev.result)


\* The rows of the store that the last /news asked for.
EvMatching ==
    {i \in 1..Len(news) : Matches(news[i], ev.source, ev.start_date, ev.end_date)}

\* The stored row that holds a link.
RowAt(url) == CHOOSE i \in 1..Len(news) : news[i].url = url

Max(a, b) == IF a >= b THEN a ELSE b

\* C22: the reply to page p of a /news holds the rows ranked
\* per_page * (p - 1) + 1 to per_page * p by published date, the newest
\* first, among the rows asked for: its k-th row is a row asked for whose
\* rank by date can be per_page * (p - 1) + k, no row comes twice, and the
\* reply holds as many rows as are left from that rank on, up to per_page,
\* which is none on a page after the last row.
Thm_C22 ==
    ev.kind = "query" =>
        LET first == per_page * (ev.page - 1)
        IN  /\ Len(ev.result) =
                   Min(per_page, Max(0, Cardinality(EvMatching) - first))
            /\ \A k, l \in 1..Len(ev.result) :
                   ev.result[k].url = ev.result[l].url => k = l
            /\ \A k \in 1..Len(ev.result) :
                   /\ HasUrl(news, ev.result[k].url)
                   /\ RowAt(ev.result[k].url) \in EvMatching
                   /\ ev.result[k].pub_date = news[RowAt(ev.result[k].url)].pub_date
                   /\ Cardinality({j \in EvMatching :
                          SortRank(news[j].pub_date) >
                              SortRank(ev.result[k].pub_date)}) < first + k
                   /\ Cardinality({j \in EvMatching :
                          SortRank(news[j].pub_date) >=
                              SortRank(ev.result[k].pub_date)}) >= first + k

\* The second page of a /news holds the only row after the first per_page.
Wit_C22 ==
    /\ ev.kind = "query" /\ ev.page = 2
    /\ Cardinality(EvMatching) = per_page + 1
    /\ Len(ev.result) = 1

\* C23: a pass that is not forced obtains the items published on the day of
\* the latest stored date as well as the later ones: an item of a classified
\* page whose date equals the watermark W of its channel, and whose link is
\* not stored yet, is reported by the pass and is in the store after the
\* page step.
Claim_C23 ==
    EvCutoff =>
        \A item \in EvItems :
            (/\ Parseable(item.pub_date)
             /\ Strptime(item.pub_date) = ev.read_dt
             /\ ~HasUrl(ev.before, item.url)) =>
                InSeq(item, ev.reported) /\ HasUrl(news, item.url)

\* The last step was a fetch_news that was not forced, with a latest date
\* that parsed.
EvFetchCutoff ==
    ev.kind = "fetch" /\ ~ev.force_update /\ Truthy(ev.latest) /\ Parseable(ev.latest)

\* C24: fetch_news of JwcFetcher, of ElectronicFetcher and of SflFetcher,
\* not forced and with a parseable latest date for the category, returns
\* for the category only records whose published date is strictly greater
\* than the latest date.
Claim_C24 ==
    EvFetchCutoff =>
        \A k \in 1..Len(ev.result) :
            /\ Parseable(ev.result[k].pub_date)
            /\ Strptime(ev.result[k].pub_date) > Strptime(ev.latest)

\* C25: the subscription registry.  An origin that has sent a subscription
\* command since the plugin was constructed is a member if and only if its
\* last command was /news auto; a command that repeats the origin's last
\* one leaves the set and the file as they are; after a command has
\* changed the membership and its save has succeeded, the file holds the
\* members of the set, each once; and a load over a file that is absent or
\* does not hold a list raises nothing and yields the empty set.
Thm_C25 ==
    /\ \A o \in ORIGINS :
          /\ cmds[o] = "subscribe" => o \in auto_notify_origins
          /\ cmds[o] = "unsubscribe" => o \notin auto_notify_origins
    /\ (ev.kind = "cmd" /\ ev.repeat) =>
          /\ auto_notify_origins = ev.before
          /\ auto_notify_file = ev.file0
    /\ (ev.kind = "cmd" /\ ev.changed /\ ev.saved) =>
          /\ auto_notify_file.kind = "list"
          /\ Range(auto_notify_file.data) = auto_notify_origins
          /\ Len(auto_notify_file.data) = Cardinality(auto_notify_origins)
    /\ ev.kind = "load" =>
          /\ ~ev.raised
          /\ ev.file.kind # "list" => auto_notify_origins = {}
          /\ ev.file.kind = "list" => auto_notify_origins = Range(ev.file.data)

\* A /news auto off of an origin right after its /news auto off, the file
\* holding a saved list and the other origin's last command being
\* /news auto.
Wit_C25 ==
    /\ ev.kind = "cmd" /\ ev.cmd = "unsubscribe" /\ ev.repeat
    /\ auto_notify_file.kind = "list"
    /\ \E o \in ORIGINS : o # ev.origin /\ cmds[o] = "subscribe"

\* The file name of page number page of a listing.
ListFile(page) ==
    CASE page = 1 -> "list.htm"
      [] page = 2 -> "list2.htm"
      [] page = 3 -> "list3.htm"
      [] page = 4 -> "list4.htm"

\* C26: get_page_url returns {base_url}/{identifier}/list.htm for page 1
\* and {base_url}/{identifier}/list{p}.htm for a page p > 1, and the URLs
\* of two different page numbers of a channel differ.
Thm_C26 ==
    ev.kind = "url" =>
        /\ ev.url = ev.base_url \o "/" \o ev.identifier \o "/" \o ListFile(ev.page)
        /\ \A q \in 1..MaxUrlPage : q # ev.page => ev.urls[q] # ev.url

\* The URL of page 2 of the channel 9827 of sfl.seu.edu.cn.
Wit_C26 ==
    /\ ev.kind = "url" /\ ev.page = 2
    /\ ev.url = "https://sfl.seu.edu.cn/9827/list2.htm"
    /\ ev.urls[1] = "https://sfl.seu.edu.cn/9827/list.htm"

\* The page requests of channel c in a trace are for the pages 1, 2, 3, ...
\* in this order, none twice and none left out.
PagesInOrder(t, c) ==
    \A i \in PageGets(t, c) :
        t[i].page = Cardinality({j \in PageGets(t, c) : j <= i})

\* C27: within a pass the pages of a channel are fetched and decoded in
\* increasing order of page number from 1 on, none skipped, no page above
\* the detected total_pages is fetched, and the page a step decodes is the
\* last one the pass has requested of the channel before.
Thm_C27 ==
    /\ \A p \in Procs : \A c \in ChIdx :
          LET t == run[p].trace
          IN  /\ PagesInOrder(t, c)
              /\ \A i \in PageGets(t, c) : \A k \in 1..Len(t) :
                     (t[k].e = "pages" /\ t[k].ch = c) => t[i].page <= t[k].dt
    /\ ev.kind = "page" =>
          LET t == run[ev.p].trace
              before == {i \in PageGets(t, ev.ch) : t[i].page <= ev.page}
          IN  /\ Cardinality(before) = ev.page
              /\ \A i \in PageGets(t, ev.ch) \ before : t[i].page = ev.page + 1

\* A pass has decoded page 2 of a channel with 2 pages, after page 1.
Wit_C27 ==
    /\ ev.kind = "page" /\ ev.page = 2 /\ ev.page_news # << >>
    /\ Cardinality(PageGets(run[ev.p].trace, ev.ch)) = 2
    /\ run[ev.p].pc = "first_get"

\* C28: the watermark of a channel never moves backwards: when the latest
\* stored date of the channel parses to the date D, then after any step it
\* parses to a date that is D or later, and is neither earlier nor absent.
Claim_C28 ==
    [][\A c \in ChIdx :
          Watermark(news, c) # NoDt =>
              /\ Watermark(news', c) # NoDt
              /\ Watermark(news', c) >= Watermark(news, c)]_vars

\* C29: when a scheduled pass has returned a batch that is not empty to a
\* registry that is not empty, send_message is called with that batch for
\* every subscriber by the time the loop over the registry has ended,
\* whether sends failed or not (here: for every origin that was subscribed
\* when the pass returned and has been since); and nothing is sent when
\* the batch or the registry is empty.
Claim_C29 ==
    /\ notify.pc \in {"done", "raised"} => notify.stayed \subseteq Range(notify.sends)
    /\ notify.sends # << >> =>
          /\ notify.subs0 # {}
          /\ notify.batch # << >>
          /\ run["sched"].pc \in {"returned", "raised"} =>
                 notify.batch = run["sched"].new_news_all

\* The entries of a listing that carry a date are listed newest first.
Descending(listing) ==
    \A i, j \in 1..Len(listing) :
        (i < j /\ Parseable(listing[i].date) /\ Parseable(listing[j].date)) =>
            Strptime(listing[i].date) >= Strptime(listing[j].date)

\* Entry number i of the listing of channel c is dated after the watermark
\* that the pass of coroutine p found for the channel when it started.
LaterThanStart(p, c, i) ==
    /\ Parseable(feed[c][i].date)
    /\ Strptime(feed[c][i].date) > Watermark(hist[p].db0, c)

\* C30: when a scheduled pass has returned, no request of it has failed
\* and the sites have not changed since it started, then of every channel
\* that lists its dated entries newest first, every entry dated after the
\* watermark the pass started with is stored, and so is every entry
\* without a parseable date that is listed between two such entries: an
\* undated entry among the new ones does not make the pass skip newer
\* entries of later pages.
Claim_C30 ==
    (/\ run["sched"].pc = "returned"
     /\ hist["sched"].since
     /\ \A c \in ChIdx : ~Failed(run["sched"].trace, c))
    => \A c \in ChIdx :
           Descending(feed[c]) =>
               \A i \in 1..Len(feed[c]) :
                   \/ HasUrl(news, feed[c][i].url)
                   \/ /\ ~LaterThanStart("sched", c, i)
                      /\ ~(/\ ~Parseable(feed[c][i].date)
                           /\ \E j \in 1..(i - 1) : LaterThanStart("sched", c, j)
                           /\ \E k \in (i + 1)..Len(feed[c]) :
                                  LaterThanStart("sched", c, k))

(***************************************************************************)
(* C31: entries a failed page request left unread.                         *)
(***************************************************************************)
\* The scheduled pass that has just returned met no failed request, ran
\* over sites that did not change while it ran, and stored nothing: the
\* passes after it, over the same sites, read and store what it did.
SettledPass ==
    /\ run["sched"].pc = "returned"
    /\ hist["sched"].since
    /\ hist["sched"].added = 0
    /\ \A c \in ChIdx : ~Failed(run["sched"].trace, c)

\* C31: a failed page request in the middle of a channel loses nothing
\* for good: once a later scheduled pass has run with every request
\* answered and has nothing left to store, every entry of the unread pages
\* that was dated after the start watermark of the pass that failed is in
\* the table.
Claim_C31 ==
    SettledPass => \A l \in lost : HasUrl(news, l.url)


(***************************************************************************)
(* C32: subscription commands while the driver awaits a send.              *)
(***************************************************************************)
\* C32: a subscribe or unsubscribe command handled while scheduled_check
\* is suspended in send_message never ends the driver: the loop over the
\* registry is not left by an exception, and the task is still the
\* returned pass on its way to asyncio.sleep or a pass after it.
Claim_C32 ==
    notify.mutated =>
        /\ notify.pc \in {"sending", "done"}
        /\ run["sched"].pc \in {"returned", "first_get", "page_get", "sleep"}


(***************************************************************************)
(* C33: the batches of consecutive notifications.                          *)
(***************************************************************************)
\* C33: no link is notified twice: when a scheduled pass returns and its
\* batch is sent to the subscribers, the batch shares no link with the
\* batch that was sent before it.
Claim_C33 ==
    [][(/\ run["sched"].pc # "returned"
        /\ run'["sched"].pc = "returned"
        /\ notify'.pc = "sending")
       => LinksOf(notify.batch) \cap LinksOf(notify'.batch) = {}]_vars

=============================================================================
